---- MODULE Spec2Model ----
(***************************************************************************)
(* roget: the Wordle feedback engine (Correctness::compute, Guess::matches, *)
(* the base-3 mask packing), the game loop Wordle::play and the Escore      *)
(* solver's candidate pool and candidate selection.                         *)
(*                                                                          *)
(* A word is a sequence of WORD_LENGTH letters, a mask a sequence of        *)
(* WORD_LENGTH values of Correctness.                                       *)
(***************************************************************************)
EXTENDS Integers, Sequences, FiniteSets, TLC

VARIABLES
    kind,       \* which input the mask engine was given: "words", "mask", "index"
    mAnswer,    \* compute's / matches' answer (candidate) word
    mGuess,     \* compute's / matches' guess word
    mask,       \* the mask handed to PackedCorrectness::from / enumerate_mask
    index,      \* an accumulator slot of Escore::guess's totals array
    pc,         \* position of the mask engine's driver
    computed,   \* result of Correctness::compute(answer, guess)
    accepted,   \* the masks m for which Guess{guess, m}.matches(answer) returned true
    packed,     \* result of PackedCorrectness::from(mask)
    unpacked,   \* result of u16::from(packed)
    idx,        \* result of enumerate_mask(mask)
    preimage,   \* the masks whose packed value, read back as u16, is index
    INITIAL,    \* the static OnceCell INITIAL of escore.rs: init is FALSE until first built
    solver,     \* the Escore of the game in progress and its caller's history
    games,      \* number of Escore::new calls so far (one per game, as in main.rs)
    filtered,   \* whether some guess call so far has filtered a pool
    play        \* one run of Wordle::play: its arguments, locals and what it did

maskVars == <<kind, mAnswer, mGuess, mask, index, pc, computed, accepted, packed,
              unpacked, idx, preimage>>

solverVars == <<INITIAL, solver, games, filtered>>

vars == <<maskVars, solverVars, play>>

----------------------------------------------------------------------------
(* Bounds and program constants *)

\* Number of distinct letters the mask engine's input words are drawn from.
NumLetters == 2

WORD_LENGTH == 5

U16_MAX == 65535

LetterNames == <<"a", "b", "c", "d", "e", "f">>

Letters == {LetterNames[i] : i \in 1..NumLetters}

Positions == 1..WORD_LENGTH

\* The words of the repeated-letter cases of lib.rs's tests::compute.
TestWords ==
    { <<"a", "a", "b", "b", "b">>, <<"a", "a", "c", "c", "c">>,
      <<"c", "c", "a", "a", "c">>, <<"c", "a", "a", "c", "c">>,
      <<"a", "z", "z", "a", "z">>, <<"a", "a", "a", "b", "b">>,
      <<"b", "a", "c", "c", "c">>, <<"a", "a", "d", "d", "d">>,
      <<"a", "b", "c", "d", "e">>, <<"a", "a", "c", "d", "e">>,
      <<"e", "a", "b", "c", "d">> }

\* The inputs of compute and matches: every word over Letters, and the test words.
Words == [Positions -> Letters] \cup TestWords

Correctness == {"Correct", "Misplaced", "Wrong"}

Masks == [Positions -> Correctness]

NoValue == "none"

\* Integers outside the u16 range: an absent value (Option::None) and a panic.
NoU16 == U16_MAX + 1

Panicked == U16_MAX + 2

----------------------------------------------------------------------------
(* Correctness::compute *)

\* First pass: the Correct marks.
ComputeCorrect(a, g) ==
    [i \in Positions |-> IF a[i] = g[i] THEN "Correct" ELSE "Wrong"]

\* First pass: misplaced[x], the answer letters x that were not matched in place.
ComputeTally(a, g) ==
    [x \in {a[i] : i \in Positions} \cup {g[i] : i \in Positions} |->
        Cardinality({i \in Positions : a[i] # g[i] /\ a[i] = x})]

RECURSIVE ComputeMisplacedBuggy(_, _, _, _)
\* The second pass without the decrement of the tally.
ComputeMisplacedBuggy(g, c, misplaced, i) ==
    IF i > WORD_LENGTH THEN c
    ELSE IF c[i] = "Wrong" /\ misplaced[g[i]] > 0
         THEN ComputeMisplacedBuggy(g, [c EXCEPT ![i] = "Misplaced"], misplaced, i + 1)
         ELSE ComputeMisplacedBuggy(g, c, misplaced, i + 1)

RECURSIVE ComputeMisplaced(_, _, _, _)
\* Second pass, left to right over the guess from position i on.
ComputeMisplaced(g, c, misplaced, i) ==
    IF i > WORD_LENGTH THEN c
    ELSE IF c[i] = "Wrong" /\ misplaced[g[i]] > 0
         THEN ComputeMisplaced(g, [c EXCEPT ![i] = "Misplaced"],
                               [misplaced EXCEPT ![g[i]] = @ - 1], i + 1)
         ELSE ComputeMisplaced(g, c, misplaced, i + 1)

compute(a, g) == ComputeMisplaced(g, ComputeCorrect(a, g), ComputeTally(a, g), 1)

----------------------------------------------------------------------------
(* Correctness::is_misplaced and Guess::matches *)

\* The first answer position holding letter that is not used yet, 0 when none.
FirstUnused(letter, a, used) ==
    IF \E i \in Positions : a[i] = letter /\ ~used[i]
    THEN CHOOSE i \in Positions :
            /\ a[i] = letter /\ ~used[i]
            /\ \A j \in 1..(i - 1) : ~(a[j] = letter /\ ~used[j])
    ELSE 0

\* is_misplaced that ignores the used markers.
is_misplaced_buggy(letter, a, used) ==
    [found |-> \E i \in Positions : a[i] = letter, used |-> used]

\* Result and the used array as the call leaves it.
is_misplaced(letter, a, used) ==
    LET i == FirstUnused(letter, a, used)
    IN  IF i = 0 THEN [found |-> FALSE, used |-> used]
        ELSE [found |-> TRUE, used |-> [used EXCEPT ![i] = TRUE]]

RECURSIVE MatchesCorrect(_, _, _, _, _)
\* First loop of matches from position i on: ok = FALSE is the early return.
MatchesCorrect(word, gword, gmask, used, i) ==
    IF i > WORD_LENGTH THEN [ok |-> TRUE, used |-> used]
    ELSE IF word[i] = gword[i]
         THEN IF gmask[i] # "Correct" THEN [ok |-> FALSE, used |-> used]
              ELSE MatchesCorrect(word, gword, gmask, [used EXCEPT ![i] = TRUE], i + 1)
         ELSE IF gmask[i] = "Correct" THEN [ok |-> FALSE, used |-> used]
              ELSE MatchesCorrect(word, gword, gmask, used, i + 1)

RECURSIVE MatchesMisplaced(_, _, _, _, _)
\* Second loop of matches from guess position i on.
MatchesMisplaced(word, gword, gmask, used, i) ==
    IF i > WORD_LENGTH THEN TRUE
    ELSE IF gmask[i] = "Correct" THEN MatchesMisplaced(word, gword, gmask, used, i + 1)
         ELSE LET r == is_misplaced(gword[i], word, used)
              IN  IF r.found # (gmask[i] = "Misplaced") THEN FALSE
                  ELSE MatchesMisplaced(word, gword, gmask, r.used, i + 1)

\* Guess{word: gword, mask: gmask}.matches(word)
matches(gword, gmask, word) ==
    LET first == MatchesCorrect(word, gword, gmask, [i \in Positions |-> FALSE], 1)
    IN  IF ~first.ok THEN FALSE
        ELSE MatchesMisplaced(word, gword, gmask, first.used, 1)

----------------------------------------------------------------------------
(* MAX_MASK_ENUM, PackedCorrectness and enumerate_mask *)

RECURSIVE Pow(_, _)
Pow(b, e) == IF e = 0 THEN 1 ELSE b * Pow(b, e - 1)

MAX_MASK_ENUM == Pow(3, WORD_LENGTH)

correctness_value(c) ==
    CASE c = "Correct" -> 0
      [] c = "Misplaced" -> 1
      [] c = "Wrong" -> 2

\* u16::checked_mul: None on overflow.
checked_mul(acc, k) == IF acc * k > U16_MAX THEN NoU16 ELSE acc * k

\* A fold step that adds the digit before multiplying.
PackStepBuggy(acc, c) ==
    IF acc = Panicked THEN Panicked
    ELSE LET multiplied_acc == checked_mul(acc + correctness_value(c), 3)
         IN  IF multiplied_acc = NoU16 THEN Panicked ELSE multiplied_acc

\* One step of the fold's closure; Panicked once the closure has panicked.
PackStep(acc, c) ==
    IF acc = Panicked THEN Panicked
    ELSE LET multiplied_acc == checked_mul(acc, 3)
         IN  IF multiplied_acc = NoU16 THEN Panicked
             ELSE IF multiplied_acc + correctness_value(c) > U16_MAX THEN Panicked
             ELSE multiplied_acc + correctness_value(c)

RECURSIVE PackFold(_, _, _)
PackFold(c, acc, i) ==
    IF i > WORD_LENGTH THEN acc ELSE PackFold(c, PackStep(acc, c[i]), i + 1)

\* PackedCorrectness::from: the NonZeroU16 holding packed + 1.
PackedFrom(c) ==
    LET p == PackFold(c, 0, 1)
    IN  IF p = Panicked THEN Panicked
        ELSE IF p + 1 > U16_MAX \/ p + 1 = 0 THEN Panicked ELSE p + 1

\* u16::from(PackedCorrectness)
PackedToU16(this) == this - 1

RECURSIVE EnumFold(_, _, _)
EnumFold(c, acc, i) ==
    IF i > WORD_LENGTH THEN acc
    ELSE EnumFold(c, acc * 3 + correctness_value(c[i]), i + 1)

\* enumerate_mask: the base-3 index of a mask.
enumerate_mask(c) == EnumFold(c, 0, 1)

----------------------------------------------------------------------------
(* escore.rs: the shared INITIAL pool and Escore::new *)

\* Number of games played one after the other, each with an Escore of its own.
MaxGames == 2

\* Longest history a caller hands to Escore::guess.
MaxHistory == 3

\* Number of candidates of one call whose e_score lies below the others'.
MaxLow == 2

NoWord == <<>>

FIRST_GUESS == <<"t", "a", "r", "e", "s">>

\* The dictionary resource, one record per line in file order.
DICTIONARY ==
    << [word |-> <<"b", "o", "u", "n", "d">>, count |-> 20],
       [word |-> <<"f", "o", "u", "n", "d">>, count |-> 35],
       [word |-> <<"h", "o", "u", "n", "d">>, count |-> 30],
       [word |-> <<"m", "o", "u", "n", "d">>, count |-> 30],
       [word |-> <<"p", "o", "u", "n", "d">>, count |-> 15],
       [word |-> <<"r", "a", "t", "e", "s">>, count |-> 25],
       [word |-> <<"t", "a", "r", "e", "s">>, count |-> 40],
       [word |-> <<"t", "r", "e", "a", "t">>, count |-> 10] >>

\* A word the dictionary does not hold.
Outsider == <<"w", "o", "u", "n", "d">>

\* A mask no answer produces: four Correct letters and one Misplaced.
ImpossibleMask == <<"Correct", "Correct", "Correct", "Correct", "Misplaced">>

DictionaryWords == {DICTIONARY[i].word : i \in DOMAIN DICTIONARY}

RECURSIVE SumRange(_, _, _)
\* The counts of lines lo..hi added up, by halves.
SumRange(lines, lo, hi) ==
    IF lo > hi THEN 0
    ELSE IF lo = hi THEN lines[lo].count
    ELSE LET mid == (lo + hi) \div 2
         IN  SumRange(lines, lo, mid) + SumRange(lines, mid + 1, hi)

SumCounts(lines) == SumRange(lines, 1, Len(lines))

\* sigmoid(count / sum): an f64 the model keeps as an uninterpreted term.
sigmoid(count, sum) == [count |-> count, sum |-> sum]

MaxCount(S) == CHOOSE c \in {DICTIONARY[i].count : i \in S} :
                    \A j \in S : DICTIONARY[j].count <= c

RECURSIVE SortedOrders(_)
\* sort_unstable_by_key(Reverse(count)): every order of the lines in S with the
\* counts descending; lines of equal count may come out in either order.
SortedOrders(S) ==
    IF S = {} THEN {<<>>}
    ELSE UNION {{<<i>> \o t : t \in SortedOrders(S \ {i})} :
                    i \in {j \in S : DICTIONARY[j].count = MaxCount(S)}}

\* The values INITIAL.get_or_init's closure may build.
InitialPools ==
    {[k \in DOMAIN order |->
        [word |-> DICTIONARY[order[k]].word,
         p |-> sigmoid(DICTIONARY[order[k]].count, SumCounts(DICTIONARY))]] :
     order \in SortedOrders(DOMAIN DICTIONARY)}

\* An Escore that does not exist (yet, or any more).
NoSolver ==
    [live |-> FALSE, remaining |-> [tag |-> "Borrowed", vec |-> <<>>], entropy |-> 0,
     history |-> <<>>, phase |-> "none", word |-> NoWord, scores |-> <<>>,
     evaluated |-> 0]

\* Escore::new's value: remaining borrows INITIAL, entropy is empty.
NewSolver ==
    [live |-> TRUE, remaining |-> [tag |-> "Borrowed", vec |-> <<>>], entropy |-> 0,
     history |-> <<>>, phase |-> "call", word |-> NoWord, scores |-> <<>>,
     evaluated |-> 0]

\* What a Cow<'static, Vec<..>> reads as: the shared vector while Borrowed.
Deref(cow, shared) == IF cow.tag = "Borrowed" THEN shared ELSE cow.vec

----------------------------------------------------------------------------
(* Escore::guess *)

\* The entries of vec that last.matches accepts, in vec's order.
Retain(vec, last) ==
    LET keep(entry) == matches(last.word, last.mask, entry.word)
    IN  SelectSeq(vec, keep)

\* A filter that always starts again from the shared pool.
FilterRemainingFromShared(remaining, shared, history) ==
    IF history = <<>> THEN [remaining |-> remaining, shared |-> shared]
    ELSE [remaining |-> [tag |-> "Owned", vec |-> Retain(shared, history[Len(history)])],
          shared |-> shared]

\* A filter that retains in place whatever remaining refers to.
FilterRemainingInPlace(remaining, shared, history) ==
    IF history = <<>> THEN [remaining |-> remaining, shared |-> shared]
    ELSE IF remaining.tag = "Owned"
         THEN [remaining |-> [tag |-> "Owned",
                              vec |-> Retain(remaining.vec, history[Len(history)])],
               shared |-> shared]
         ELSE [remaining |-> remaining,
               shared |-> Retain(shared, history[Len(history)])]

\* A filter that applies the oldest feedback of the history on every call.
FilterRemainingByFirst(remaining, shared, history) ==
    IF history = <<>> THEN [remaining |-> remaining, shared |-> shared]
    ELSE IF remaining.tag = "Owned"
         THEN [remaining |-> [tag |-> "Owned", vec |-> Retain(remaining.vec, history[1])],
               shared |-> shared]
         ELSE [remaining |-> [tag |-> "Owned", vec |-> Retain(shared, history[1])],
               shared |-> shared]

\* The filtering of self.remaining: what the call leaves in self.remaining and in
\* the vector INITIAL holds.
FilterRemaining(remaining, shared, history) ==
    IF history = <<>> THEN [remaining |-> remaining, shared |-> shared]
    ELSE IF remaining.tag = "Owned"
         THEN [remaining |-> [tag |-> "Owned",
                              vec |-> Retain(remaining.vec, history[Len(history)])],
               shared |-> shared]
         ELSE [remaining |-> [tag |-> "Owned",
                              vec |-> Retain(shared, history[Len(history)])],
               shared |-> shared]

MaxOf(m, n) == IF m >= n THEN m ELSE n

\* A stop that lets the loop run over the whole pool.
StopAtPoolEnd(n) == n

\* stop = (self.remaining.len() / 3).max(20)
Stop(n) == MaxOf(n \div 3, 20)

\* A comparison that also replaces the incumbent on a tie.
LowerOrEqual(e_score, incumbent) == e_score <= incumbent

\* e_score < c.e_score
Lower(e_score, incumbent) == e_score < incumbent

RECURSIVE SelectLoopSkipLast(_, _, _, _, _)
\* A loop that stops one entry short of the pool's end.
SelectLoopSkipLast(n, e_score, i, stop, best) ==
    IF i >= n THEN [best |-> best, evaluated |-> i - 1]
    ELSE LET next == IF best = 0 THEN i
                     ELSE IF e_score[i] < e_score[best] THEN i ELSE best
         IN  IF i >= stop THEN [best |-> next, evaluated |-> i]
             ELSE SelectLoopSkipLast(n, e_score, i + 1, stop, next)

RECURSIVE SelectLoop(_, _, _, _, _)
\* The candidate loop from the i-th pool entry on; best is the incumbent's pool
\* position, 0 for None. e_score[i] is the e_score computed for entry i.
SelectLoop(n, e_score, i, stop, best) ==
    IF i > n THEN [best |-> best, evaluated |-> i - 1]
    ELSE LET next == IF best = 0 THEN i
                     ELSE IF Lower(e_score[i], e_score[best]) THEN i ELSE best
         IN  IF i >= stop THEN [best |-> next, evaluated |-> i]
             ELSE SelectLoop(n, e_score, i + 1, stop, next)

RECURSIVE SubsetsUpTo(_, _)
SubsetsUpTo(S, k) ==
    IF k = 0 THEN {{}}
    ELSE LET smaller == SubsetsUpTo(S, k - 1)
         IN  smaller \cup {T \cup {x} : T \in smaller, x \in S}

\* The e_scores one call may compute for its n candidates. e_score is f64
\* arithmetic (log2, ln) that the loop only compares with <; the model draws
\* it from 0..MaxLow, at most MaxLow candidates lying below the rest.
EScores(n) ==
    UNION {{[i \in 1..n |-> IF i \in T THEN low[i] ELSE MaxLow] :
                low \in [T -> 0..(MaxLow - 1)]} :
           T \in SubsetsUpTo(1..n, MaxLow)}

\* Escore::guess(history) on self with INITIAL holding shared: the solver and the
\* shared vector as the call leaves them. phase "panicked" is best.unwrap() on None.
guess(self, shared, e_score) ==
    LET f == FilterRemaining(self.remaining, shared, self.history)
        pool == Deref(f.remaining, f.shared)
        r == SelectLoop(Len(pool), e_score, 1, Stop(Len(pool)), 0)
    IN  IF self.history = <<>>
        THEN [self |-> [self EXCEPT !.remaining = f.remaining, !.phase = "returned",
                                    !.word = FIRST_GUESS, !.scores = <<>>,
                                    !.evaluated = 0],
              shared |-> f.shared]
        ELSE [self |-> [self EXCEPT !.remaining = f.remaining,
                                    !.entropy = @ + 1,
                                    !.phase = IF r.best = 0 THEN "panicked" ELSE "returned",
                                    !.word = IF r.best = 0 THEN NoWord ELSE pool[r.best].word,
                                    !.scores = SubSeq(e_score, 1, r.evaluated),
                                    !.evaluated = r.evaluated],
              shared |-> f.shared]

\* The feedback a caller may report for word: the mask of some hidden word, of
\* the dictionary or not, or a mask no hidden word produces.
FeedbackMasks(word) ==
    {compute(h, word) : h \in DictionaryWords \cup {Outsider}} \cup {ImpossibleMask}

----------------------------------------------------------------------------
(* lib.rs: Wordle::play *)

\* Number of guesses play allows.
MaxGuesses == 32

\* Number of first calls on which the guesser may return any word.
FreeGuesses == 2

\* Wordle::new: the dictionary's words as a set.
dictionary == DictionaryWords

\* The words a guesser may return and play may be asked to find.
PlayWords == DictionaryWords \cup {Outsider}

Pending == [tag |-> "pending", val |-> 0]

Some(n) == [tag |-> "Some", val |-> n]

None == [tag |-> "None", val |-> 0]

\* play(answer, guesser) on entry to the loop. calls logs, per guesser.guess
\* call, the length of the history it was given and the word it returned;
\* finished logs the arguments of the guesser.finish calls.
PlayStart(a) ==
    [answer |-> a, history |-> <<>>, i |-> 1, pc |-> "loop", result |-> Pending,
     finished |-> <<>>, calls |-> <<>>]

PlayOff ==
    [answer |-> NoWord, history |-> <<>>, i |-> 0, pc |-> "off", result |-> Pending,
     finished |-> <<>>, calls |-> <<>>]

\* An iteration that also notifies the guesser when the guesses run out.
play_iteration_finish_always(p, g) ==
    LET called == [p EXCEPT !.calls = Append(@, [len |-> Len(p.history), word |-> g])]
    IN  IF g = p.answer
        THEN [called EXCEPT !.finished = Append(@, p.i), !.result = Some(p.i),
                            !.pc = "returned"]
        ELSE IF g \notin dictionary THEN [called EXCEPT !.pc = "panicked"]
        ELSE LET pushed == [called EXCEPT !.history =
                               Append(@, [word |-> g, mask |-> compute(p.answer, g)])]
             IN  IF p.i = MaxGuesses
                 THEN [pushed EXCEPT !.finished = Append(@, p.i), !.pc = "returned",
                                     !.result = None]
                 ELSE [pushed EXCEPT !.i = @ + 1]

\* An iteration that pushes the guess with the mask of the previous guess.
play_iteration_stale_mask(p, g) ==
    LET called == [p EXCEPT !.calls = Append(@, [len |-> Len(p.history), word |-> g])]
    IN  IF g = p.answer
        THEN [called EXCEPT !.finished = Append(@, p.i), !.result = Some(p.i),
                            !.pc = "returned"]
        ELSE IF g \notin dictionary THEN [called EXCEPT !.pc = "panicked"]
        ELSE LET stale == IF p.history = <<>> THEN compute(p.answer, g)
                          ELSE p.history[Len(p.history)].mask
                 pushed == [called EXCEPT !.history =
                               Append(@, [word |-> g, mask |-> stale])]
             IN  IF p.i = MaxGuesses
                 THEN [pushed EXCEPT !.pc = "returned", !.result = None]
                 ELSE [pushed EXCEPT !.i = @ + 1]

\* One iteration of play's loop, the guesser returning g; the iteration of
\* i = 32 that pushes its guess falls out of the loop and returns None.
play_iteration(p, g) ==
    LET called == [p EXCEPT !.calls = Append(@, [len |-> Len(p.history), word |-> g])]
    IN  IF g = p.answer
        THEN [called EXCEPT !.finished = Append(@, p.i), !.result = Some(p.i),
                            !.pc = "returned"]
        ELSE IF g \notin dictionary THEN [called EXCEPT !.pc = "panicked"]
        ELSE LET pushed == [called EXCEPT !.history =
                               Append(@, [word |-> g, mask |-> compute(p.answer, g)])]
             IN  IF p.i = MaxGuesses
                 THEN [pushed EXCEPT !.pc = "returned", !.result = None]
                 ELSE [pushed EXCEPT !.i = @ + 1]

\* What the guesser may return: any word on its first calls, later its last
\* wrong word again, the answer, or a word outside the dictionary.
GuesserWords(p) ==
    IF Len(p.history) < FreeGuesses THEN PlayWords
    ELSE {p.answer, Outsider, p.history[Len(p.history)].word}

----------------------------------------------------------------------------
(* Escore on a dictionary long enough for the search to stop early *)

\* Number of lines of the longest dictionary resource.
MaxLines == 90

\* Number of feedback masks one game of the long dictionary reports.
MaxSearchHistory == 2

SearchLetters == <<"o", "u", "n">>

\* Line k's word: k - 1 in base 3 over SearchLetters, and every fourth line's
\* word ends in the "s" that FIRST_GUESS ends in.
LongWord(k) ==
    [p \in Positions |->
        IF p = WORD_LENGTH /\ k % 4 = 0 THEN "s"
        ELSE SearchLetters[(((k - 1) \div Pow(3, p - 1)) % 3) + 1]]

\* A dictionary resource of n lines, the counts already descending.
LongDictionary(n) == [k \in 1..n |-> [word |-> LongWord(k), count |-> 1000 - k]]

\* What INITIAL.get_or_init's closure builds from LongDictionary(n); no two
\* counts are equal, so the sort has one outcome.
LongPool(n) ==
    LET lines == LongDictionary(n)
        sum == SumCounts(lines)
    IN  [k \in 1..n |-> [word |-> lines[k].word, p |-> sigmoid(lines[k].count, sum)]]

\* Hidden words the caller's feedback is computed from.
SearchAnswers == {LongWord(1), LongWord(4)}

SearchMasks(word) == {compute(h, word) : h \in SearchAnswers}

\* The e_scores of one call on n candidates: all equal, or one candidate,
\* anywhere in the pool, below the rest.
SearchScores(n) == {[i \in 1..n |-> IF i = k THEN 0 ELSE 1] : k \in 0..n}

----------------------------------------------------------------------------
(* Idle values of each part *)

SolverIdle ==
    /\ INITIAL = [init |-> FALSE, vec |-> <<>>]
    /\ solver = NoSolver
    /\ games = 0
    /\ filtered = FALSE

PlayIdle == play = PlayOff

----------------------------------------------------------------------------
(* The mask engine applied to bounded inputs *)

MaskIdle ==
    /\ computed = NoValue /\ accepted = NoValue /\ packed = NoU16
    /\ unpacked = NoU16 /\ idx = NoU16 /\ preimage = NoValue

\* The mask engine's driver is not in use.
MaskIdleAll ==
    /\ kind = "off" /\ pc = "off" /\ MaskIdle
    /\ mAnswer = NoValue /\ mGuess = NoValue /\ mask = NoValue /\ index = NoU16

MaskInit ==
    /\ pc = "input"
    /\ MaskIdle
    /\ SolverIdle
    /\ PlayIdle
    /\ \/ /\ kind = "words"
          /\ mAnswer \in Words /\ mGuess \in Words
          /\ mask = NoValue /\ index = NoU16
       \/ /\ kind = "mask"
          /\ mask \in Masks
          /\ mAnswer = NoValue /\ mGuess = NoValue /\ index = NoU16
       \/ /\ kind = "index"
          /\ index \in 0..(MAX_MASK_ENUM - 1)
          /\ mAnswer = NoValue /\ mGuess = NoValue /\ mask = NoValue

\* Correctness::compute(answer, guess), and the slot Escore::guess adds it to.
Compute ==
    /\ kind = "words" /\ pc = "input"
    /\ computed' = compute(mAnswer, mGuess)
    /\ idx' = enumerate_mask(computed')
    /\ pc' = "computed"
    /\ UNCHANGED <<kind, mAnswer, mGuess, mask, index, accepted, packed, unpacked, preimage>>
    /\ UNCHANGED <<solverVars, play>>

\* Guess{guess, m}.matches(answer) for every mask m.
Matches ==
    /\ kind = "words" /\ pc = "computed"
    /\ accepted' = {m \in Masks : matches(mGuess, m, mAnswer)}
    /\ pc' = "matched"
    /\ UNCHANGED <<kind, mAnswer, mGuess, mask, index, computed, packed, unpacked, idx, preimage>>
    /\ UNCHANGED <<solverVars, play>>

\* PackedCorrectness::from(mask), u16::from of it, and enumerate_mask(mask).
Pack ==
    /\ kind = "mask" /\ pc = "input"
    /\ packed' = PackedFrom(mask)
    /\ unpacked' = IF packed' = Panicked THEN Panicked ELSE PackedToU16(packed')
    /\ idx' = enumerate_mask(mask)
    /\ pc' = "packed"
    /\ UNCHANGED <<kind, mAnswer, mGuess, mask, index, computed, accepted, preimage>>
    /\ UNCHANGED <<solverVars, play>>

\* The masks whose total lands in slot index.
Slot ==
    /\ kind = "index" /\ pc = "input"
    /\ preimage' = {m \in Masks : PackedToU16(PackedFrom(m)) = index}
    /\ pc' = "slot"
    /\ UNCHANGED <<kind, mAnswer, mGuess, mask, index, computed, accepted, packed, unpacked, idx>>
    /\ UNCHANGED <<solverVars, play>>

MaskNext == Compute \/ Matches \/ Pack \/ Slot

SpecMask == MaskInit /\ [][MaskNext]_vars

----------------------------------------------------------------------------
(* Escore instances and their callers *)

SolverInit == MaskIdleAll /\ SolverIdle /\ PlayIdle

\* G::default() for the next game: INITIAL.get_or_init, then a solver
\* borrowing it.
New ==
    /\ ~solver.live /\ games < MaxGames
    /\ \E built \in InitialPools :
          INITIAL' = IF INITIAL.init THEN INITIAL ELSE [init |-> TRUE, vec |-> built]
    /\ solver' = NewSolver
    /\ games' = games + 1
    /\ UNCHANGED <<filtered, maskVars, play>>

\* Escore::guess(&history) on the solver.
EscoreGuess ==
    /\ solver.live /\ solver.phase = "call"
    /\ LET pool == Deref(FilterRemaining(solver.remaining, INITIAL.vec,
                                         solver.history).remaining, INITIAL.vec)
       IN  \E e_score \in IF solver.history = <<>> THEN {<<>>} ELSE EScores(Len(pool)) :
              LET r == guess(solver, INITIAL.vec, e_score)
              IN  /\ solver' = r.self
                  /\ INITIAL' = [INITIAL EXCEPT !.vec = r.shared]
    /\ filtered' = (filtered \/ solver.history # <<>>)
    /\ UNCHANGED <<games, maskVars, play>>

\* The caller pushes the returned word and its feedback onto the history.
Feedback ==
    /\ solver.live /\ solver.phase = "returned"
    /\ Len(solver.history) < MaxHistory
    /\ \E m \in FeedbackMasks(solver.word) :
          solver' = [solver EXCEPT
                        !.history = Append(@, [word |-> solver.word, mask |-> m]),
                        !.phase = "call"]
    /\ UNCHANGED <<INITIAL, games, filtered, maskVars, play>>

\* The game is over (or the call has unwound): the solver is dropped.
Drop ==
    /\ solver.live /\ solver.phase \in {"returned", "panicked"}
    /\ solver' = NoSolver
    /\ UNCHANGED <<INITIAL, games, filtered, maskVars, play>>

SolverNext == New \/ EscoreGuess \/ Feedback \/ Drop

SpecSolver == SolverInit /\ [][SolverNext]_vars

----------------------------------------------------------------------------
(* Wordle::play with a guesser *)

PlayInit ==
    /\ MaskIdleAll /\ SolverIdle
    /\ \E a \in PlayWords : play = PlayStart(a)

\* guesser.guess(&history) and the rest of the loop's iteration.
PlayTurn ==
    /\ play.pc = "loop"
    /\ \E g \in GuesserWords(play) : play' = play_iteration(play, g)
    /\ UNCHANGED <<maskVars, solverVars>>

PlayNext == PlayTurn

SpecPlay == PlayInit /\ [][PlayNext]_vars

----------------------------------------------------------------------------
(* Escore::guess on long pools *)

\* Escore::new has built INITIAL from a dictionary of n lines.
SearchInit ==
    /\ MaskIdleAll /\ PlayIdle
    /\ \E n \in 1..MaxLines : INITIAL = [init |-> TRUE, vec |-> LongPool(n)]
    /\ solver = NewSolver
    /\ games = 1
    /\ filtered = FALSE

\* Escore::guess(&history) on the solver.
SearchGuess ==
    /\ solver.live /\ solver.phase = "call"
    /\ LET pool == Deref(FilterRemaining(solver.remaining, INITIAL.vec,
                                         solver.history).remaining, INITIAL.vec)
       IN  \E e_score \in IF solver.history = <<>> THEN {<<>>}
                          ELSE SearchScores(Len(pool)) :
              LET r == guess(solver, INITIAL.vec, e_score)
              IN  /\ solver' = r.self
                  /\ INITIAL' = [INITIAL EXCEPT !.vec = r.shared]
    /\ filtered' = (filtered \/ solver.history # <<>>)
    /\ UNCHANGED <<games, maskVars, play>>

\* The caller pushes the returned word and its feedback onto the history.
SearchFeedback ==
    /\ solver.live /\ solver.phase = "returned"
    /\ Len(solver.history) < MaxSearchHistory
    /\ \E m \in SearchMasks(solver.word) :
          solver' = [solver EXCEPT
                        !.history = Append(@, [word |-> solver.word, mask |-> m]),
                        !.phase = "call"]
    /\ UNCHANGED <<INITIAL, games, filtered, maskVars, play>>

SearchNext == SearchGuess \/ SearchFeedback

SpecSearch == SearchInit /\ [][SearchNext]_vars

----------------------------------------------------------------------------
(* main.rs: Wordle::play driving an Escore, one game after another *)

GameInit == MaskIdleAll /\ SolverIdle /\ PlayIdle

\* The next game of main.rs's loop: G::default(), which is Escore::new(), and
\* the entry to w.play(answer, guesser). The Escore of the game before is gone; a panic ends the process.
GameStart ==
    /\ play.pc \in {"off", "returned"}
    /\ games < MaxGames
    /\ \E built \in InitialPools :
          INITIAL' = IF INITIAL.init THEN INITIAL ELSE [init |-> TRUE, vec |-> built]
    /\ solver' = NewSolver
    /\ games' = games + 1
    /\ \E a \in PlayWords : play' = PlayStart(a)
    /\ UNCHANGED <<filtered, maskVars>>

\* One iteration of play's loop with the Escore as guesser: guesser.guess on
\* play's history, then the rest of the iteration; a panic inside guess unwinds
\* through play.
GameTurn ==
    /\ play.pc = "loop" /\ solver.live
    /\ LET caller == [solver EXCEPT !.history = play.history, !.phase = "call"]
           pool == Deref(FilterRemaining(caller.remaining, INITIAL.vec,
                                         caller.history).remaining, INITIAL.vec)
       IN  \E e_score \in IF caller.history = <<>> THEN {<<>>}
                          ELSE SearchScores(Len(pool)) :
              LET r == guess(caller, INITIAL.vec, e_score)
              IN  /\ solver' = r.self
                  /\ INITIAL' = [INITIAL EXCEPT !.vec = r.shared]
                  /\ play' = IF r.self.phase = "panicked"
                             THEN [play EXCEPT !.pc = "panicked"]
                             ELSE play_iteration(play, r.self.word)
    /\ filtered' = (filtered \/ play.history # <<>>)
    /\ UNCHANGED <<games, maskVars>>

GameNext == GameStart \/ GameTurn

SpecGame == GameInit /\ [][GameNext]_vars

----------------------------------------------------------------------------
(* Claims about the mask engine *)

\* C1: for every guess word, candidate and mask of the 243 (producible or not),
\* Guess{guess, m}.matches(answer) is true exactly when m is
\* Correctness::compute(answer, guess): the masks matches accepts are that one.
C1_MatchesIffCompute ==
    (kind = "words" /\ pc = "matched") => accepted = {computed}

\* A guess with a repeated letter of which one occurrence is Misplaced and a
\* later one Wrong: the used markers decide the answer.
C1_Witness ==
    /\ kind = "words" /\ pc = "matched"
    /\ accepted = {computed}
    /\ \E i, j \in Positions :
          /\ i < j /\ mGuess[i] = mGuess[j]
          /\ computed[i] = "Misplaced" /\ computed[j] = "Wrong"

\* Non-Correct guess positions holding x.
OpenGuessPositions(a, g, x) == {i \in Positions : g[i] = x /\ a[i] # g[i]}

\* Answer positions holding x whose guess letter differs.
UnmatchedAnswerPositions(a, g, x) == {i \in Positions : a[i] = x /\ g[i] # x}

MinOf(m, n) == IF m <= n THEN m ELSE n

\* The k leftmost positions of S.
Leftmost(S, k) == {i \in S : Cardinality({j \in S : j < i}) < k}

\* C2: compute marks a position Correct exactly when answer and guess agree
\* there; for every letter x the Misplaced marks on x are the leftmost
\* min(#non-Correct guess positions of x, #unmatched answer positions of x)
\* non-Correct guess positions of x; and compute("aabbb", "ccaac") is
\* [Wrong, Wrong, Misplaced, Misplaced, Wrong].
C2_ComputeCounts ==
    (kind = "words" /\ pc = "computed") =>
        /\ \A i \in Positions : (computed[i] = "Correct") <=> (mAnswer[i] = mGuess[i])
        /\ \A x \in {mAnswer[i] : i \in Positions} \cup {mGuess[i] : i \in Positions} :
              LET open == OpenGuessPositions(mAnswer, mGuess, x)
                  k == MinOf(Cardinality(open),
                             Cardinality(UnmatchedAnswerPositions(mAnswer, mGuess, x)))
              IN  /\ {i \in Positions : mGuess[i] = x /\ computed[i] = "Misplaced"}
                        = Leftmost(open, k)
                  /\ Cardinality({i \in Positions :
                                    mGuess[i] = x /\ computed[i] = "Misplaced"}) = k
        /\ (mAnswer = <<"a", "a", "b", "b", "b">> /\ mGuess = <<"c", "c", "a", "a", "c">>)
              => computed = <<"Wrong", "Wrong", "Misplaced", "Misplaced", "Wrong">>

\* compute("aabbb", "ccaac") has been evaluated.
C2_Witness ==
    /\ kind = "words" /\ pc = "computed"
    /\ mAnswer = <<"a", "a", "b", "b", "b">> /\ mGuess = <<"c", "c", "a", "a", "c">>
    /\ computed = <<"Wrong", "Wrong", "Misplaced", "Misplaced", "Wrong">>

\* C3: the base-3 packing is a bijection between the 243 masks and 0..242:
\* packing never panics, no other mask packs to the same value, every index
\* below MAX_MASK_ENUM is the value of exactly one mask, enumerate_mask gives
\* the same index, and the index of a computed mask is below MAX_MASK_ENUM.
C3_MaskEncodingBijective ==
    /\ (kind = "mask" /\ pc = "packed") =>
          /\ packed # Panicked
          /\ unpacked \in 0..(MAX_MASK_ENUM - 1)
          /\ idx = unpacked
          /\ \A m \in Masks : m # mask => PackedFrom(m) # packed
    /\ (kind = "index" /\ pc = "slot") => Cardinality(preimage) = 1
    /\ (kind = "words" /\ pc = "computed") => idx \in 0..(MAX_MASK_ENUM - 1)

\* The all-Wrong mask has been packed to the last slot.
C3_Witness ==
    /\ kind = "mask" /\ pc = "packed"
    /\ mask = [i \in Positions |-> "Wrong"]
    /\ unpacked = MAX_MASK_ENUM - 1 /\ idx = MAX_MASK_ENUM - 1

----------------------------------------------------------------------------
(* Claims about Escore *)

\* The candidate pool the solver holds, through its Cow.
Pool == Deref(solver.remaining, INITIAL.vec)

PoolWords(vec) == {vec[k].word : k \in DOMAIN vec}

PositionIn(vec, w) == CHOOSE k \in DOMAIN vec : vec[k].word = w

\* after holds some of before's entries, each once, in before's order.
IsSubsequence(after, before) ==
    /\ \A k \in DOMAIN after : \E j \in DOMAIN before : before[j] = after[k]
    /\ \A k1, k2 \in DOMAIN after :
          k1 < k2 => PositionIn(before, after[k1].word) < PositionIn(before, after[k2].word)

\* C4: over the guess calls of one game the pool never grows and keeps its
\* order; a call with non-empty history leaves exactly the words of the
\* previous pool that history.last().matches accepts, a call with empty
\* history leaves the pool as it was.
C4_PoolShrinksByMatches ==
    [][(solver.live /\ solver'.live) =>
          LET before == Pool
              after == Deref(solver'.remaining, INITIAL'.vec)
              h == solver.history
          IN  /\ Len(after) <= Len(before)
              /\ IsSubsequence(after, before)
              /\ (solver.phase = "call" /\ solver'.phase # "call") =>
                    IF h = <<>> THEN after = before
                    ELSE PoolWords(after) =
                            {w \in PoolWords(before) :
                                matches(h[Len(h)].word, h[Len(h)].mask, w)}]_vars

\* Two filtering calls into its game the solver's pool is cut down but not empty.
C4_Witness ==
    /\ solver.live /\ solver.phase = "returned"
    /\ Len(solver.history) = 2
    /\ solver.remaining.tag = "Owned"
    /\ Len(Pool) > 1 /\ Len(Pool) < Len(INITIAL.vec) - 3

\* C5: no step changes the shared INITIAL pool once it is built; a solver that
\* has not filtered yet borrows it and so reads the whole sorted dictionary, a
\* solver that has filtered owns a private copy.
C5_InitialNeverChanged ==
    [][/\ INITIAL.init => INITIAL' = INITIAL
       /\ INITIAL'.init => INITIAL'.vec \in InitialPools
       /\ (solver'.live /\ solver'.history = <<>>) =>
             /\ solver'.remaining.tag = "Borrowed"
             /\ Deref(solver'.remaining, INITIAL'.vec) \in InitialPools
       /\ (solver'.live /\ solver'.history # <<>> /\ solver'.phase # "call") =>
             solver'.remaining.tag = "Owned"]_vars

\* A solver of an earlier game has filtered its pool, and the solver of the
\* last game has made its first call on the whole pool.
C5_Witness ==
    /\ games = MaxGames /\ filtered
    /\ solver.live /\ solver.history = <<>> /\ solver.phase = "returned"
    /\ solver.remaining.tag = "Borrowed"
    /\ Len(Pool) = Len(DICTIONARY)

\* C6: a call with non-empty history that filters the pool down to nothing
\* ends in a named "no consistent candidate" outcome, not in the unwrap of an
\* absent best candidate and not with a word.
C6_EmptyPoolIsNamedOutcome ==
    (solver.live /\ solver.history # <<>> /\ solver.phase # "call" /\ Pool = <<>>) =>
       /\ solver.phase = "no consistent candidate"
       /\ solver.word = NoWord

C10_EarliestMinimum ==
    (solver.live /\ solver.phase = "returned" /\ solver.history # <<>>) =>
       \E j \in 1..solver.evaluated :
          /\ solver.word = Pool[j].word
          /\ \A i \in 1..solver.evaluated :
                /\ solver.scores[j] <= solver.scores[i]
                /\ i < j => solver.scores[i] > solver.scores[j]

\* Two candidates tie for the minimum, a worse one was evaluated before them,
\* and the call returned the first of the two.
C10_Witness ==
    /\ solver.live /\ solver.phase = "returned" /\ solver.history # <<>>
    /\ solver.evaluated = 3
    /\ solver.scores[1] > solver.scores[2]
    /\ solver.scores[2] = solver.scores[3]
    /\ solver.word = Pool[2].word

----------------------------------------------------------------------------
(* Claims about Wordle::play *)

\* C7 as stated: whenever play has returned, with Some or with None, the
\* guesser's finish has been called exactly once.
C7_FinishOnceWhateverOutcome ==
    play.pc = "returned" => Len(play.finished) = 1

\* C7: finish is called exactly once, with the turn count, when the answer is
\* guessed, and not at all while the game runs, when the guesses run out or
\* when play panics.
C7_FinishOnceOnSuccess ==
    /\ (play.pc = "returned" /\ play.result.tag = "Some") =>
          play.finished = <<play.result.val>>
    /\ (play.pc = "returned" /\ play.result.tag = "None") => play.finished = <<>>
    /\ play.pc \in {"loop", "panicked"} => play.finished = <<>>

\* The answer was found on the last allowed guess and finish told so.
C7_Witness ==
    /\ play.pc = "returned" /\ play.result = Some(MaxGuesses)
    /\ play.finished = <<MaxGuesses>>

\* The calls of the guesser and the history they built: the k-th call got a
\* history of length k - 1, and every wrong guess was pushed, in order, with
\* compute(answer, guess) as its mask.
HistoryFollowsCalls ==
    /\ \A k \in DOMAIN play.calls : play.calls[k].len = k - 1
    /\ Len(play.history) \in {Len(play.calls) - 1, Len(play.calls)}
    /\ \A k \in DOMAIN play.history :
          play.history[k] = [word |-> play.calls[k].word,
                             mask |-> compute(play.answer, play.calls[k].word)]

\* Some(i) is returned for the first call i that returned the answer.
SomeIsFirstHit ==
    /\ \A k \in DOMAIN play.calls :
          play.calls[k].word = play.answer =>
             /\ play.pc = "returned" /\ play.result = Some(k)
             /\ k <= MaxGuesses
             /\ \A j \in 1..(k - 1) :
                   play.calls[j].word # play.answer /\ play.calls[j].word \in dictionary
    /\ (play.pc = "returned" /\ play.result.tag = "Some") =>
          /\ play.result.val = Len(play.calls)
          /\ play.calls[play.result.val].word = play.answer

NoHit == \A k \in DOMAIN play.calls : play.calls[k].word # play.answer

\* C8 as stated: None is returned when none of 32 guesses equals the answer.
C8_NoneWheneverNoHit ==
    /\ HistoryFollowsCalls
    /\ SomeIsFirstHit
    /\ (Len(play.calls) = MaxGuesses /\ NoHit) =>
          (play.pc = "returned" /\ play.result = None)

\* C8: the k-th call gets a history of length k - 1 built from the wrong
\* guesses and their masks; Some(i) is returned for the first call that
\* returns the answer; None is returned when none of 32 guesses equals the
\* answer and all 32 are dictionary words, and only then.
C8_PlayResult ==
    /\ HistoryFollowsCalls
    /\ SomeIsFirstHit
    /\ (Len(play.calls) = MaxGuesses /\ NoHit
          /\ \A k \in DOMAIN play.calls : play.calls[k].word \in dictionary) =>
          (play.pc = "returned" /\ play.result = None)
    /\ (play.pc = "returned" /\ play.result = None) =>
          (Len(play.calls) = MaxGuesses /\ NoHit /\ Len(play.history) = MaxGuesses)

\* Thirty-two wrong dictionary words were guessed and play returned None.
C8_Witness ==
    /\ play.pc = "returned" /\ play.result = None
    /\ Len(play.calls) = MaxGuesses /\ Len(play.history) = MaxGuesses
    /\ play.history[MaxGuesses].mask = compute(play.answer, play.calls[MaxGuesses].word)

----------------------------------------------------------------------------
(* Claims about the candidate search *)

\* C11: a guess call with non-empty history whose filtered pool holds n >= 1
\* words returns, having evaluated exactly the first min(n, max(n div 3, 20))
\* words of that pool in pool order, and the word it returns is one of them.
C11_SearchEvaluatesPrefix ==
    (solver.live /\ solver.history # <<>> /\ solver.phase # "call" /\ Len(Pool) >= 1) =>
       LET n == Len(Pool)
           third == n \div 3
           stop == IF third >= 20 THEN third ELSE 20
           prefix == IF n <= stop THEN n ELSE stop
       IN  /\ solver.phase = "returned"
           /\ solver.evaluated = prefix
           /\ DOMAIN solver.scores = 1..prefix
           /\ \E k \in 1..prefix : solver.word = Pool[k].word

\* A pool of more than sixty words: the search stopped after a third of them
\* and returned the last word it evaluated.
C11_Witness ==
    /\ solver.live /\ solver.phase = "returned" /\ solver.history # <<>>
    /\ Len(Pool) > 65
    /\ solver.evaluated = Len(Pool) \div 3
    /\ solver.evaluated > 20
    /\ solver.word = Pool[solver.evaluated].word

----------------------------------------------------------------------------
(* Claims about a game played by Escore *)

\* The word of play's k-th guess call agrees with every feedback of the
\* history that call was given.
ConsistentCall(k) ==
    \A j \in 1..(k - 1) :
       matches(play.history[j].word, play.history[j].mask, play.calls[k].word)

\* C12: in a game play runs with an Escore and an answer of the initial pool,
\* no turn's filtering removes the answer from the pool, so the pool is never
\* empty and guess never panics, and every word guess returns after the first
\* turn agrees with all the feedback in the history it was given.
C12_AnswerStaysInPool ==
    (play.pc # "off" /\ play.answer \in PoolWords(INITIAL.vec)) =>
       /\ solver.live /\ solver.phase # "panicked"
       /\ play.answer \in PoolWords(Pool)
       /\ Pool # <<>>
       /\ \A k \in DOMAIN play.history :
             /\ play.history[k].mask = compute(play.answer, play.history[k].word)
             /\ matches(play.history[k].word, play.history[k].mask, play.answer)
       /\ \A k \in DOMAIN play.calls : k > 1 => ConsistentCall(k)
       /\ Len(play.calls) > 1 => play.calls[Len(play.calls)].word \in PoolWords(Pool)

\* Three wrong guesses into a game, two of them filtered, the answer is still
\* one of several words in the pool.
C12_Witness ==
    /\ play.pc = "loop" /\ play.answer \in PoolWords(INITIAL.vec)
    /\ Len(play.calls) = 3 /\ Len(play.history) = 3
    /\ solver.remaining.tag = "Owned"
    /\ Len(Pool) >= 3 /\ Len(Pool) < Len(INITIAL.vec)
    /\ play.answer \in PoolWords(Pool)
    /\ play.calls[3].word # FIRST_GUESS

====
